---- MODULE Spec2Model ----
(***************************************************************************)
(* atomic-lend-cell: a Lender (AtomicLendCell) owns a payload and issues   *)
(* Borrowers (AtomicBorrowCell) that hold two raw addresses: the payload's *)
(* and the liveness state's.  Two strategies, selected by a cargo feature: *)
(*   atomic_counting.rs  the liveness state is an AtomicUsize count        *)
(*   flag_based.rs       the liveness state is an AtomicBool alive flag    *)
(* Every atomic instruction is one step; steps of different handles        *)
(* interleave freely (threads).  The liveness state lives inside the       *)
(* Lender's own storage, which is released when its drop returns or        *)
(* unwinds; an access through an address of released storage is undefined  *)
(* behaviour and is modelled as a nondeterministic result.                 *)
(***************************************************************************)
EXTENDS Integers, FiniteSets

\* Number of Borrower handles that can ever be created in one run.
MaxBorrows == 3
\* Payload values are 1..MaxValue.
MaxValue == 2
\* Width of the usize count, scaled down (the count wraps modulo 2^UsizeBits).
UsizeBits == 3

VARIABLES
    feature,            \* build: "ref-counting" | "flag-based"         (lib.rs)
    debug_assertions,   \* build: cfg(debug_assertions)
    panic_strategy,     \* build: what panic! does, "unwind" | "abort"
    payload_is_ref,     \* the Lender is an AtomicLendCell<&U>
    newArg,             \* the argument given to AtomicLendCell::new
    referent,           \* the U that a reference payload points at
    self,               \* the location of the Lender value
    allocated,          \* locations whose Lender storage has not been released
    data,               \* data[l]: the field `data` of the Lender storage at l
    liveness,           \* liveness[l]: the field `refcount` / `is_alive` at l
    lender_pc,          \* "alive" | "dropping" | "dropped" | "panicked"
    seen,               \* the count that the Lender's drop loaded
    synced,             \* that load synchronized with the decrements it observed
    lender_got,         \* what the last AtomicLendCell::as_ref yielded (0: none)
    borrow_got,         \* the last AtomicBorrowCell::as_ref: whose, and its result
    cells,              \* cells[b]: Borrower handle b
    halted,             \* the process was aborted
    dangling            \* addresses accessed after their storage was released

vars == <<feature, debug_assertions, panic_strategy, payload_is_ref, newArg,
          referent, self, allocated, data, liveness, lender_pc, seen,
          synced, lender_got, borrow_got, cells, halted, dangling>>

build == <<feature, debug_assertions, panic_strategy, payload_is_ref, newArg, referent>>

Handles == 1 .. MaxBorrows
Values == 1 .. MaxValue
Locs == {1, 2}

RECURSIVE Pow2(_)
Pow2(n) == IF n = 0 THEN 1 ELSE 2 * Pow2(n - 1)

UsizeModulus == Pow2(UsizeBits)

\* ------------------------------------------------------------ addresses
\* Location 0 is the home of the referent U; the Lender lives at a location >= 1.
DataAddr(l) == 10 * (l + 1)
LiveAddr(l) == 10 * (l + 1) + 1
ReferentAddr == DataAddr(0)

\* Whether the storage behind an address still exists.
Valid(addr) ==
    \/ addr = ReferentAddr
    \/ \E l \in allocated : addr \in {DataAddr(l), LiveAddr(l)}

LocOf(addr) == CHOOSE l \in Locs \cup {0} : addr \in {DataAddr(l), LiveAddr(l)}

\* Everything a read of released payload storage may yield.
Garbage == Values \cup {ReferentAddr}

\* What the storage behind a valid address holds.
Content(addr) ==
    IF addr = ReferentAddr THEN referent
    ELSE IF addr = DataAddr(LocOf(addr)) THEN data[LocOf(addr)]
    ELSE liveness[LocOf(addr)]

\* `*ptr` for a data address: the set of results the read can have.
ReadData(addr) == IF Valid(addr) THEN {Content(addr)} ELSE Garbage

\* `.load()` of an AtomicBool through a liveness address.
ReadFlag(addr) == IF Valid(addr) THEN {Content(addr)} ELSE BOOLEAN

\* The addresses an access through `addr` adds to the released-storage log.
Touch(addr) == IF Valid(addr) THEN {} ELSE {addr}

\* ------------------------------------------------------------ atomics
fetch_add(c, n) == (c + n) % UsizeModulus
fetch_sub(c, n) == (c - n + UsizeModulus) % UsizeModulus

\* A read-modify-write of the count behind `addr`; released storage is not tracked.
RmwAdd(addr) ==
    IF Valid(addr)
    THEN [liveness EXCEPT ![LocOf(addr)] = fetch_add(@, 1)]
    ELSE liveness
RmwSub(addr) ==
    IF Valid(addr)
    THEN [liveness EXCEPT ![LocOf(addr)] = fetch_sub(@, 1)]
    ELSE liveness

\* The memory orderings the count is accessed with.
AC_Lend_borrow_Ordering == "Acquire"
AC_Borrow_clone_Ordering == "SeqCst"
AC_Borrow_drop_Ordering == "Release"
AC_Lend_drop_Ordering == "Relaxed"

\* A load that reads from (the release sequence of) a read-modify-write
\* synchronizes with it when the write is a release and the load an acquire.
SynchronizesWith(write, read) ==
    /\ write \in {"Release", "AcqRel", "SeqCst"}
    /\ read \in {"Acquire", "AcqRel", "SeqCst"}

\* ------------------------------------------------------------ handles
NoCell == [state |-> "unissued", data_ptr |-> 0, liveness_ptr |-> 0,
           pc |-> "idle", origin |-> "none", is_clone |-> FALSE]
\* A Borrower whose drop has run: the value no longer exists.
Gone(how) == [NoCell EXCEPT !.state = how]

Live == {b \in Handles : cells[b].state = "live"}
Unissued == {b \in Handles : cells[b].state = "unissued"}
\* The handle a new Borrower gets: the lowest unused one.
NextHandle == CHOOSE b \in Unissued : \A c \in Unissued : b <= c

\* AtomicBorrowCell { data_ptr, refcount_ptr / owner_alive_ptr }.  `origin` is
\* the operation that issued the handle's family (it fixes the handle's type,
\* AtomicBorrowCell<T> for borrow and AtomicBorrowCell<U> for borrow_deref).
AtomicBorrowCell(dp, lp, how, cloned) ==
    [state |-> "live", data_ptr |-> dp, liveness_ptr |-> lp,
     pc |-> "idle", origin |-> how, is_clone |-> cloned]

\* The result of a call that ended in panic!.
Panicked == 0 - 1

\* What panic! does to the process: abort ends it, unwind ends only the caller.
Panic == IF panic_strategy = "abort" THEN TRUE ELSE halted

Init ==
    /\ feature \in {"ref-counting", "flag-based"}
    /\ debug_assertions \in BOOLEAN
    /\ panic_strategy \in {"unwind", "abort"}
    /\ payload_is_ref \in BOOLEAN
    /\ referent \in (IF payload_is_ref THEN Values ELSE {0})
    /\ newArg \in (IF payload_is_ref THEN {ReferentAddr} ELSE Values)
    /\ self = 1
    /\ allocated = {1}
    /\ data = [l \in Locs |-> newArg]
    /\ liveness = [l \in Locs |-> IF feature = "ref-counting" THEN 0 ELSE TRUE]
    /\ lender_pc = "alive"
    /\ seen = 0
    /\ synced = FALSE
    /\ lender_got = 0
    /\ borrow_got = [origin |-> "none", value |-> 0]
    /\ cells = [b \in Handles |-> NoCell]
    /\ halted = FALSE
    /\ dangling = {}

\* ============================================================ atomic_counting.rs
\* AtomicLendCell::as_ref: &self.data
AC_Lend_as_ref ==
    /\ ~halted /\ feature = "ref-counting" /\ lender_pc = "alive"
    /\ lender_got' = data[self]
    /\ UNCHANGED <<build, synced, borrow_got, self, allocated, data, liveness, lender_pc, seen,
                   cells, halted, dangling>>

\* Mutant: a Borrower is issued without counting it.
AC_Lend_borrow_NoIncrement ==
    /\ ~halted /\ feature = "ref-counting" /\ lender_pc = "alive"
    /\ Unissued # {}
    /\ cells' = [cells EXCEPT ![NextHandle] =
                    AtomicBorrowCell(DataAddr(self), LiveAddr(self), "borrow", FALSE)]
    /\ UNCHANGED <<build, synced, borrow_got, self, allocated, data, liveness,
                   lender_pc, seen, lender_got, halted, dangling>>

\* AtomicLendCell::borrow: fetch_add(1), then the two addresses of self.
AC_Lend_borrow ==
    /\ ~halted /\ feature = "ref-counting" /\ lender_pc = "alive"
    /\ Unissued # {}
    /\ liveness' = [liveness EXCEPT ![self] = fetch_add(@, 1)]
    /\ cells' = [cells EXCEPT ![NextHandle] =
                    AtomicBorrowCell(DataAddr(self), LiveAddr(self), "borrow", FALSE)]
    /\ UNCHANGED <<build, synced, borrow_got, self, allocated, data, lender_pc, seen, lender_got,
                   halted, dangling>>

\* Mutant: data_ptr is the address of the reference slot, as in borrow.
AC_Lend_borrow_deref_OfSlot ==
    /\ ~halted /\ feature = "ref-counting" /\ lender_pc = "alive"
    /\ payload_is_ref
    /\ Unissued # {}
    /\ liveness' = [liveness EXCEPT ![self] = fetch_add(@, 1)]
    /\ cells' = [cells EXCEPT ![NextHandle] =
                    AtomicBorrowCell(DataAddr(self), LiveAddr(self), "borrow_deref", FALSE)]
    /\ UNCHANGED <<build, synced, borrow_got, self, allocated, data, lender_pc, seen,
                   lender_got, halted, dangling>>

\* AtomicLendCell<&T>::borrow_deref: fetch_add(1); data_ptr is the reference held.
AC_Lend_borrow_deref ==
    /\ ~halted /\ feature = "ref-counting" /\ lender_pc = "alive"
    /\ payload_is_ref
    /\ Unissued # {}
    /\ liveness' = [liveness EXCEPT ![self] = fetch_add(@, 1)]
    /\ cells' = [cells EXCEPT ![NextHandle] =
                    AtomicBorrowCell(data[self], LiveAddr(self), "borrow_deref", FALSE)]
    /\ UNCHANGED <<build, synced, borrow_got, self, allocated, data, lender_pc, seen, lender_got,
                   halted, dangling>>

\* Mutant: clone copies the addresses and forgets the fetch_add.
AC_Borrow_clone_NoIncrement(b) ==
    /\ ~halted /\ feature = "ref-counting"
    /\ b \in Live
    /\ Unissued # {}
    /\ cells' = [cells EXCEPT ![NextHandle] =
                    AtomicBorrowCell(cells[b].data_ptr, cells[b].liveness_ptr,
                                     cells[b].origin, TRUE)]
    /\ UNCHANGED <<build, synced, borrow_got, self, allocated, data, liveness, lender_pc,
                   seen, lender_got, halted, dangling>>

\* AtomicBorrowCell::clone: fetch_add(1) through refcount_ptr, copy both addresses.
AC_Borrow_clone(b) ==
    /\ ~halted /\ feature = "ref-counting"
    /\ b \in Live
    /\ Unissued # {}
    /\ liveness' = RmwAdd(cells[b].liveness_ptr)
    /\ dangling' = dangling \cup Touch(cells[b].liveness_ptr)
    /\ cells' = [cells EXCEPT ![NextHandle] =
                    AtomicBorrowCell(cells[b].data_ptr, cells[b].liveness_ptr,
                                     cells[b].origin, TRUE)]
    /\ UNCHANGED <<build, synced, borrow_got, self, allocated, data, lender_pc, seen, lender_got, halted>>

\* AtomicBorrowCell::as_ref: *data_ptr, with no check.
AC_Borrow_as_ref(b) ==
    /\ ~halted /\ feature = "ref-counting"
    /\ b \in Live
    /\ \E x \in ReadData(cells[b].data_ptr) :
           borrow_got' = [origin |-> cells[b].origin, value |-> x]
    /\ dangling' = dangling \cup Touch(cells[b].data_ptr)
    /\ UNCHANGED <<build, synced, self, allocated, data, liveness, lender_pc, seen,
                   lender_got, cells, halted>>

\* Mutant: drop subtracts 2.
AC_Borrow_drop_Twice(b) ==
    /\ ~halted /\ feature = "ref-counting"
    /\ b \in Live /\ cells[b].pc = "idle"
    /\ liveness' = IF Valid(cells[b].liveness_ptr)
                   THEN [liveness EXCEPT ![LocOf(cells[b].liveness_ptr)] = fetch_sub(@, 2)]
                   ELSE liveness
    /\ dangling' = dangling \cup Touch(cells[b].liveness_ptr)
    /\ cells' = [cells EXCEPT ![b] = Gone("dropped")]
    /\ UNCHANGED <<build, synced, borrow_got, self, allocated, data, lender_pc, seen, lender_got, halted>>

\* Mutant: drop forgets the fetch_sub.
AC_Borrow_drop_NoDecrement(b) ==
    /\ ~halted /\ feature = "ref-counting"
    /\ b \in Live /\ cells[b].pc = "idle"
    /\ cells' = [cells EXCEPT ![b] = Gone("dropped")]
    /\ UNCHANGED <<build, synced, borrow_got, self, allocated, data, liveness, lender_pc,
                   seen, lender_got, halted, dangling>>

\* AtomicBorrowCell::drop: fetch_sub(1) through refcount_ptr.
AC_Borrow_drop(b) ==
    /\ ~halted /\ feature = "ref-counting"
    /\ b \in Live /\ cells[b].pc = "idle"
    /\ liveness' = RmwSub(cells[b].liveness_ptr)
    /\ dangling' = dangling \cup Touch(cells[b].liveness_ptr)
    /\ cells' = [cells EXCEPT ![b] = Gone("dropped")]
    /\ UNCHANGED <<build, synced, borrow_got, self, allocated, data, lender_pc, seen, lender_got, halted>>

\* Mutant: the drop takes the count (swap(0)) instead of loading it.
AC_Lend_drop_load_Swap ==
    /\ ~halted /\ feature = "ref-counting" /\ lender_pc = "alive"
    /\ seen' = liveness[self]
    /\ liveness' = [liveness EXCEPT ![self] = 0]
    /\ synced' = SynchronizesWith(AC_Borrow_drop_Ordering, AC_Lend_drop_Ordering)
    /\ lender_pc' = "dropping"
    /\ UNCHANGED <<build, borrow_got, self, allocated, data, lender_got, cells,
                   halted, dangling>>

\* AtomicLendCell::drop, line 54: the load of the count.
AC_Lend_drop_load ==
    /\ ~halted /\ feature = "ref-counting" /\ lender_pc = "alive"
    /\ seen' = liveness[self]
    /\ synced' = SynchronizesWith(AC_Borrow_drop_Ordering, AC_Lend_drop_Ordering)
    /\ lender_pc' = "dropping"
    /\ UNCHANGED <<build, borrow_got, self, allocated, data, liveness, lender_got, cells,
                   halted, dangling>>

\* Mutant: the check is `> 1` instead of `> 0`.
AC_Lend_drop_finish_OffByOne ==
    /\ ~halted /\ feature = "ref-counting" /\ lender_pc = "dropping"
    /\ IF seen > 1
       THEN /\ lender_pc' = "panicked"
            /\ halted' = Panic
            /\ allocated' = IF Panic THEN allocated ELSE allocated \ {self}
       ELSE /\ lender_pc' = "dropped"
            /\ halted' = halted
            /\ allocated' = allocated \ {self}
    /\ UNCHANGED <<build, synced, borrow_got, self, data, liveness, seen, lender_got,
                   cells, dangling>>

\* AtomicLendCell::drop, lines 54-57: panic! if the loaded count is > 0, else
\* return.  Returning, and unwinding out of drop, release the Lender's storage.
AC_Lend_drop_finish ==
    /\ ~halted /\ feature = "ref-counting" /\ lender_pc = "dropping"
    /\ IF seen > 0
       THEN /\ lender_pc' = "panicked"
            /\ halted' = Panic
            /\ allocated' = IF Panic THEN allocated ELSE allocated \ {self}
       ELSE /\ lender_pc' = "dropped"
            /\ halted' = halted
            /\ allocated' = allocated \ {self}
    /\ UNCHANGED <<build, synced, borrow_got, self, data, liveness, seen, lender_got, cells, dangling>>

AC_Next ==
    \/ AC_Lend_as_ref
    \/ AC_Lend_borrow
    \/ AC_Lend_borrow_deref
    \/ \E b \in Handles : AC_Borrow_clone(b)
    \/ \E b \in Handles : AC_Borrow_as_ref(b)
    \/ \E b \in Handles : AC_Borrow_drop(b)
    \/ AC_Lend_drop_load
    \/ AC_Lend_drop_finish

\* ============================================================ flag_based.rs
\* AtomicLendCell::as_ref: &self.data
FB_Lend_as_ref ==
    /\ ~halted /\ feature = "flag-based" /\ lender_pc = "alive"
    /\ lender_got' = data[self]
    /\ UNCHANGED <<build, synced, borrow_got, self, allocated, data, liveness, lender_pc, seen,
                   cells, halted, dangling>>

\* AtomicLendCell::borrow: the two addresses of self, no atomic operation.
FB_Lend_borrow ==
    /\ ~halted /\ feature = "flag-based" /\ lender_pc = "alive"
    /\ Unissued # {}
    /\ cells' = [cells EXCEPT ![NextHandle] =
                    AtomicBorrowCell(DataAddr(self), LiveAddr(self), "borrow", FALSE)]
    /\ UNCHANGED <<build, synced, borrow_got, self, allocated, data, liveness, lender_pc, seen,
                   lender_got, halted, dangling>>

\* Mutant: data_ptr is the address of the reference slot, as in borrow.
FB_Lend_borrow_deref_OfSlot ==
    /\ ~halted /\ feature = "flag-based" /\ lender_pc = "alive"
    /\ payload_is_ref
    /\ Unissued # {}
    /\ cells' = [cells EXCEPT ![NextHandle] =
                    AtomicBorrowCell(DataAddr(self), LiveAddr(self), "borrow_deref", FALSE)]
    /\ UNCHANGED <<build, synced, borrow_got, self, allocated, data, liveness,
                   lender_pc, seen, lender_got, halted, dangling>>

\* AtomicLendCell<&T>::borrow_deref: data_ptr is the reference held.
FB_Lend_borrow_deref ==
    /\ ~halted /\ feature = "flag-based" /\ lender_pc = "alive"
    /\ payload_is_ref
    /\ Unissued # {}
    /\ cells' = [cells EXCEPT ![NextHandle] =
                    AtomicBorrowCell(data[self], LiveAddr(self), "borrow_deref", FALSE)]
    /\ UNCHANGED <<build, synced, borrow_got, self, allocated, data, liveness, lender_pc, seen,
                   lender_got, halted, dangling>>

\* AtomicBorrowCell::clone: copy both addresses.
FB_Borrow_clone(b) ==
    /\ ~halted /\ feature = "flag-based"
    /\ b \in Live
    /\ Unissued # {}
    /\ cells' = [cells EXCEPT ![NextHandle] =
                    AtomicBorrowCell(cells[b].data_ptr, cells[b].liveness_ptr,
                                     cells[b].origin, TRUE)]
    /\ UNCHANGED <<build, synced, borrow_got, self, allocated, data, liveness, lender_pc, seen,
                   lender_got, halted, dangling>>

\* Mutant: the test of the flag is inverted.
FB_Borrow_as_ref_check_Inverted(b) ==
    /\ ~halted /\ feature = "flag-based" /\ debug_assertions
    /\ b \in Live /\ cells[b].pc = "idle"
    /\ \E is_alive \in ReadFlag(cells[b].liveness_ptr) :
           IF ~is_alive
           THEN /\ cells' = [cells EXCEPT ![b].pc = "checked"]
                /\ UNCHANGED <<borrow_got, halted>>
           ELSE /\ borrow_got' = [origin |-> cells[b].origin, value |-> Panicked]
                /\ halted' = Panic
                /\ cells' = cells
    /\ dangling' = dangling \cup Touch(cells[b].liveness_ptr)
    /\ UNCHANGED <<build, synced, self, allocated, data, liveness, lender_pc, seen, lender_got>>

\* AtomicBorrowCell::as_ref, lines 78-85 (cfg(debug_assertions)): load the flag
\* through owner_alive_ptr; panic! if it is false.
FB_Borrow_as_ref_check(b) ==
    /\ ~halted /\ feature = "flag-based" /\ debug_assertions
    /\ b \in Live /\ cells[b].pc = "idle"
    /\ \E is_alive \in ReadFlag(cells[b].liveness_ptr) :
           IF is_alive
           THEN /\ cells' = [cells EXCEPT ![b].pc = "checked"]
                /\ UNCHANGED <<borrow_got, halted>>
           ELSE /\ borrow_got' = [origin |-> cells[b].origin, value |-> Panicked]
                /\ halted' = Panic
                /\ cells' = cells
    /\ dangling' = dangling \cup Touch(cells[b].liveness_ptr)
    /\ UNCHANGED <<build, synced, self, allocated, data, liveness, lender_pc, seen, lender_got>>

\* AtomicBorrowCell::as_ref, line 87: *data_ptr.
FB_Borrow_as_ref_deref(b) ==
    /\ ~halted /\ feature = "flag-based"
    /\ b \in Live
    /\ cells[b].pc = (IF debug_assertions THEN "checked" ELSE "idle")
    /\ \E x \in ReadData(cells[b].data_ptr) :
           borrow_got' = [origin |-> cells[b].origin, value |-> x]
    /\ cells' = [cells EXCEPT ![b].pc = "idle"]
    /\ dangling' = dangling \cup Touch(cells[b].data_ptr)
    /\ UNCHANGED <<build, synced, self, allocated, data, liveness, lender_pc, seen,
                   lender_got, halted>>

\* Mutant: the check is compiled in every build.
FB_Borrow_drop_Checked(b) ==
    /\ ~halted /\ feature = "flag-based"
    /\ b \in Live /\ cells[b].pc = "idle"
    /\ \E is_alive \in ReadFlag(cells[b].liveness_ptr) :
           IF is_alive
           THEN /\ cells' = [cells EXCEPT ![b] = Gone("dropped")]
                /\ halted' = halted
           ELSE /\ cells' = [cells EXCEPT ![b] = Gone("drop_panicked")]
                /\ halted' = Panic
    /\ dangling' = dangling \cup Touch(cells[b].liveness_ptr)
    /\ UNCHANGED <<build, synced, borrow_got, self, allocated, data, liveness, lender_pc,
                   seen, lender_got>>

\* AtomicBorrowCell::drop: under cfg(debug_assertions) load the flag and panic!
\* if it is false; otherwise nothing.
FB_Borrow_drop(b) ==
    /\ ~halted /\ feature = "flag-based"
    /\ b \in Live /\ cells[b].pc = "idle"
    /\ IF debug_assertions
       THEN /\ \E is_alive \in ReadFlag(cells[b].liveness_ptr) :
                  IF is_alive
                  THEN /\ cells' = [cells EXCEPT ![b] = Gone("dropped")]
                       /\ halted' = halted
                  ELSE /\ cells' = [cells EXCEPT ![b] = Gone("drop_panicked")]
                       /\ halted' = Panic
            /\ dangling' = dangling \cup Touch(cells[b].liveness_ptr)
       ELSE /\ cells' = [cells EXCEPT ![b] = Gone("dropped")]
            /\ UNCHANGED <<halted, dangling>>
    /\ UNCHANGED <<build, synced, borrow_got, self, allocated, data, liveness, lender_pc, seen, lender_got>>

\* Mutant: drop forgets the store.
FB_Lend_drop_store_NoStore ==
    /\ ~halted /\ feature = "flag-based" /\ lender_pc = "alive"
    /\ lender_pc' = "dropping"
    /\ UNCHANGED <<build, synced, borrow_got, self, allocated, data, liveness, seen,
                   lender_got, cells, halted, dangling>>

\* AtomicLendCell::drop, line 55: is_alive.store(false).
FB_Lend_drop_store ==
    /\ ~halted /\ feature = "flag-based" /\ lender_pc = "alive"
    /\ liveness' = [liveness EXCEPT ![self] = FALSE]
    /\ lender_pc' = "dropping"
    /\ UNCHANGED <<build, synced, borrow_got, self, allocated, data, seen, lender_got, cells,
                   halted, dangling>>

\* Mutant: the drop waits until no Borrower is outstanding.
FB_Lend_drop_return_Waits ==
    /\ ~halted /\ feature = "flag-based" /\ lender_pc = "dropping"
    /\ Live = {}
    /\ lender_pc' = "dropped"
    /\ allocated' = allocated \ {self}
    /\ UNCHANGED <<build, synced, borrow_got, self, data, liveness, seen, lender_got,
                   cells, halted, dangling>>

\* AtomicLendCell::drop, lines 58-60: yield_now (cfg(debug_assertions)) and
\* return; the Lender's storage is released.
FB_Lend_drop_return ==
    /\ ~halted /\ feature = "flag-based" /\ lender_pc = "dropping"
    /\ lender_pc' = "dropped"
    /\ allocated' = allocated \ {self}
    /\ UNCHANGED <<build, synced, borrow_got, self, data, liveness, seen, lender_got, cells,
                   halted, dangling>>

FB_Next ==
    \/ FB_Lend_as_ref
    \/ FB_Lend_borrow
    \/ FB_Lend_borrow_deref
    \/ \E b \in Handles : FB_Borrow_clone(b)
    \/ \E b \in Handles : FB_Borrow_as_ref_check(b)
    \/ \E b \in Handles : FB_Borrow_as_ref_deref(b)
    \/ \E b \in Handles : FB_Borrow_drop(b)
    \/ FB_Lend_drop_store
    \/ FB_Lend_drop_return

\* lib.rs: the build exports one of the two modules.
Next == AC_Next \/ FB_Next

Spec == Init /\ [][Next]_vars

\* ============================================================ leaked Borrowers
\* std::mem::forget(borrower): the Borrower's Drop never runs, so the count
\* keeps its increment; the value is gone and its handle is free again.
AC_Borrow_forget(b) ==
    /\ ~halted /\ feature = "ref-counting"
    /\ b \in Live /\ cells[b].pc = "idle"
    /\ cells' = [cells EXCEPT ![b] = NoCell]
    /\ UNCHANGED <<build, synced, borrow_got, self, allocated, data, liveness,
                   lender_pc, seen, lender_got, halted, dangling>>

\* A ref-counting build whose client also leaks Borrowers.
InitWrap ==
    /\ Init
    /\ feature = "ref-counting"
    /\ ~debug_assertions
    /\ panic_strategy = "unwind"
    /\ (payload_is_ref \/ newArg = 1)
    /\ (payload_is_ref => referent = 1)

NextWrap ==
    \/ AC_Next
    \/ \E b \in Handles : AC_Borrow_forget(b)

SpecWrap == InitWrap /\ [][NextWrap]_vars

\* ============================================================ moved Lenders
\* `let y = x;`, `Box::new(x)`, `Some(x)`: the Lender value is copied to a fresh
\* location and its old storage is given up.  Nothing in the types forbids it
\* while Borrowers exist: AtomicBorrowCell has no lifetime tied to the Lender.
Lend_move ==
    /\ ~halted /\ lender_pc = "alive"
    /\ \E l \in Locs \ allocated :
          /\ l > self
          /\ data' = [data EXCEPT ![l] = data[self]]
          /\ liveness' = [liveness EXCEPT ![l] = liveness[self]]
          /\ self' = l
          /\ allocated' = (allocated \ {self}) \cup {l}
    /\ UNCHANGED <<build, synced, borrow_got, lender_pc, seen, lender_got, cells,
                   halted, dangling>>

\* Either build, with a client that also moves the Lender.
InitMove ==
    /\ Init
    /\ panic_strategy = "unwind"
    /\ (payload_is_ref \/ newArg = 1)
    /\ (payload_is_ref => referent = 1)

NextMove ==
    \/ Next
    \/ Lend_move

SpecMove == InitMove /\ [][NextMove]_vars

\* ============================================================ claims
RefCounting == feature = "ref-counting"
FlagBased == feature = "flag-based"
Dropped == {b \in Handles : cells[b].state \in {"dropped", "drop_panicked"}}
\* The Lender's drop starts / ends in this step.
TeardownStarts == lender_pc = "alive" /\ lender_pc' # "alive"
TeardownEnds == lender_pc = "dropping" /\ lender_pc' # "dropping"

\* C1: ref-count strategy, every build: a teardown that starts while a Borrower
\* is live loads a count >= 1, and a teardown that loaded a count >= 1 never
\* ends normally: it ends in the fatal violation.
C1_TeardownWithLiveBorrowerIsFatal ==
    /\ [][(RefCounting /\ TeardownStarts /\ Live # {}) => seen' >= 1]_vars
    /\ [][(RefCounting /\ TeardownEnds /\ seen >= 1) => lender_pc' = "panicked"]_vars

C1_Witness ==
    /\ RefCounting /\ lender_pc = "panicked" /\ Live # {}
    /\ \E b \in Live : cells[b].is_clone

\* C2: ref-count strategy: no Borrower reads the payload or touches the count
\* after the Lender's storage has been released.
C2_NoAccessAfterRelease ==
    RefCounting => dangling = {}

\* C3: ref-count strategy: a teardown that starts when every Borrower has been
\* dropped loads a count of 0, and a teardown that loaded 0 ends normally.
C3_AllDroppedTeardownIsClean ==
    /\ [][(RefCounting /\ TeardownStarts /\ Live = {}) => seen' = 0]_vars
    /\ [][(RefCounting /\ TeardownEnds /\ seen = 0) =>
            (lender_pc' = "dropped" /\ ~halted')]_vars

C3_Witness ==
    /\ RefCounting /\ lender_pc = "dropped" /\ ~halted
    /\ Dropped = Handles
    /\ borrow_got.value \in Values

\* No fatal violation has been raised.
NoViolation ==
    /\ lender_pc # "panicked"
    /\ ~halted
    /\ borrow_got.value # Panicked
    /\ \A b \in Handles : cells[b].state # "drop_panicked"

\* C4: flag strategy, both build modes: as long as the teardown has not started
\* or no Borrower is outstanding (every Borrower was dropped before the
\* teardown started), no step raises a fatal violation: not as_ref, not a
\* Borrower's drop, not the teardown.
C4_DropsBeforeTeardownNeverFatal ==
    [][(FlagBased /\ NoViolation /\ (lender_pc = "alive" \/ Live = {}))
          => NoViolation']_vars

C4_Witness ==
    /\ FlagBased /\ debug_assertions /\ lender_pc = "dropped"
    /\ Dropped = Handles /\ NoViolation /\ dangling = {}
    /\ borrow_got.value \in Values

\* C5: flag strategy, verification mode: an as_ref that begins after the
\* teardown has cleared the flag never passes the check (it panics, and never
\* goes on to return a reference to the payload).
C5_AccessAfterClearIsFatal ==
    [][\A b \in Handles :
          (FlagBased /\ debug_assertions /\ lender_pc # "alive" /\ cells[b].pc = "idle")
              => cells'[b].pc # "checked"]_vars

\* C6: flag strategy, verification mode: a Borrower's drop that runs after the
\* teardown has cleared the flag ends in the fatal violation, and one that runs
\* while the flag is still true completes without one.
C6_DropAfterClearIsFatal ==
    [][\A b \in Handles :
          (FlagBased /\ debug_assertions /\ cells[b].state = "live"
                /\ cells'[b].state # "live")
              => cells'[b].state =
                    (IF lender_pc = "alive" THEN "dropped" ELSE "drop_panicked")]_vars

\* C7: flag strategy, verification mode: a Borrower never dereferences the
\* payload after the Lender's storage has been released.  Stated for the runs
\* in which every load of the flag read live storage, so that what is left is
\* the interleaving of the check, the teardown and the dereference.
C7_NoDerefAfterRelease ==
    (FlagBased /\ debug_assertions /\ (\A l \in Locs : LiveAddr(l) \notin dangling))
        => \A l \in Locs : DataAddr(l) \notin dangling

\* C8: both strategies: AtomicLendCell::as_ref yields the value given to new;
\* before the teardown, as_ref on a Borrower issued by borrow (or cloned from
\* one) yields that same value, and on a Borrower issued by borrow_deref the
\* value the payload refers to.
C8_AsValueYieldsPayload ==
    /\ lender_got # 0 => lender_got = newArg
    /\ (lender_pc = "alive" /\ borrow_got.origin # "none") =>
           borrow_got.value =
               (IF borrow_got.origin = "borrow_deref" THEN referent ELSE newArg)

C8_Witness ==
    /\ lender_pc = "alive" /\ lender_got = newArg /\ newArg = MaxValue
    /\ borrow_got.origin = "borrow" /\ borrow_got.value = MaxValue
    /\ \E b \in Live : cells[b].is_clone

\* C9: flag strategy: the flag is true while the Lender is alive, the teardown
\* clears it, and it changes in no other step: once, true to false, at the
\* start of the teardown, and never back.
C9_FlagClearedOnceAtTeardown ==
    /\ [](FlagBased /\ lender_pc = "alive" => liveness[self] = TRUE)
    /\ [][FlagBased /\ TeardownStarts => liveness'[self] = FALSE]_vars
    /\ [][FlagBased /\ liveness' # liveness =>
            (TeardownStarts /\ liveness[self] = TRUE /\ liveness'[self] = FALSE)]_vars

C9_Witness ==
    /\ FlagBased /\ lender_pc = "dropped" /\ liveness[self] = FALSE
    /\ Dropped # {} /\ Live # {} /\ dangling # {}

\* C10: ref-count strategy: in every state in which the Lender's storage exists
\* and a Borrower is live, the count is >= 1.
C10_LiveBorrowerImpliesCount ==
    (RefCounting /\ self \in allocated /\ Live # {}) => liveness[self] >= 1

C10_Witness ==
    /\ RefCounting /\ self \in allocated /\ liveness[self] = 1
    /\ Dropped # {} /\ \E b \in Live : cells[b].is_clone


\* C11: flag strategy: the teardown never raises a fatal violation itself, and
\* in a process that has not been aborted each of its two steps can be taken
\* whatever the Borrowers are and are doing: it waits for none of them.
C11_TeardownNeverBlocksNorFails ==
    FlagBased =>
        /\ lender_pc # "panicked"
        /\ (lender_pc = "alive" /\ ~halted) => ENABLED FB_Lend_drop_store
        /\ (lender_pc = "dropping" /\ ~halted) => ENABLED FB_Lend_drop_return

C11_Witness ==
    /\ FlagBased /\ lender_pc = "dropped" /\ ~halted
    /\ Cardinality(Live) >= 2
    /\ \E b \in Live : cells[b].pc = "checked"

\* C12: flag strategy, optimized build: as_ref and the Borrower's drop raise no
\* violation and load no flag, before or after the teardown: no as_ref is ever
\* between a check and its dereference, the flag's address is never read
\* after release, as_ref can dereference whenever the Borrower exists, and a
\* Borrower's drop changes nothing but the Borrower.
C12_OptimizedBuildNeverChecks ==
    /\ []((FlagBased /\ ~debug_assertions) =>
            /\ NoViolation
            /\ \A l \in Locs : LiveAddr(l) \notin dangling
            /\ \A b \in Handles : cells[b].pc = "idle"
            /\ \A b \in Live : ENABLED FB_Borrow_as_ref_deref(b))
    /\ [][(FlagBased /\ ~debug_assertions
              /\ \E b \in Handles : cells[b].state = "live" /\ cells'[b].state # "live")
          => /\ \E b \in Handles : cells' = [cells EXCEPT ![b] = Gone("dropped")]
             /\ UNCHANGED <<build, synced, self, allocated, data, liveness, lender_pc, seen,
                            lender_got, borrow_got, halted, dangling>>]_vars

C12_Witness ==
    /\ FlagBased /\ ~debug_assertions /\ lender_pc = "dropped"
    /\ DataAddr(self) \in dangling /\ borrow_got.origin = "borrow"
    /\ Dropped # {} /\ Live # {}

\* C13: ref-count strategy: when the Lender has concluded that the count is 0
\* and released the payload after Borrowers were dropped, its load of the count
\* synchronized with their release decrements (so that their reads of the
\* payload happen before the release).
C13_TeardownLoadAcquires ==
    (RefCounting /\ lender_pc = "dropped" /\ Dropped # {}) => synced

\* A Borrower comes into existence / ceases to exist in this step.
IssueStep == \E b \in Handles : cells[b].state = "unissued" /\ cells'[b].state = "live"
DropStep == \E b \in Handles : cells[b].state = "live" /\ cells'[b].state # "live"

\* C14: the liveness state changes only through its designated operations.
\* Ref-count strategy: a step that creates a Borrower (borrow, borrow_deref,
\* clone) adds exactly 1 to the count, a Borrower's drop subtracts exactly 1,
\* and every other step (both as_ref, both steps of the teardown) leaves it.
\* Flag strategy: the flag changes only in the step that starts the teardown.
C14_LivenessFrame ==
    /\ [][(RefCounting /\ self \in allocated) =>
            /\ IssueStep => liveness'[self] = liveness[self] + 1
            /\ DropStep => liveness'[self] = liveness[self] - 1
            /\ ~(IssueStep \/ DropStep) => liveness' = liveness]_vars
    /\ [][(FlagBased /\ liveness' # liveness) =>
            (TeardownStarts /\ ~IssueStep /\ ~DropStep)]_vars

C14_Witness ==
    /\ RefCounting /\ lender_pc = "dropping" /\ seen = 2 /\ liveness[self] = 2
    /\ Dropped # {} /\ lender_got # 0 /\ borrow_got.origin # "none"

\* C15: a Borrower issued by borrow_deref (or cloned from one) holds the address
\* of the referenced U, which is the reference the Lender was given and not
\* the address of the Lender's data slot, and the address of that Lender's
\* liveness state; in the ref-count strategy issuing it adds exactly 1 to the
\* count and dropping it subtracts exactly 1 from the same count.
C15_BorrowDerefAddresses ==
    /\ [](\A b \in Live : cells[b].origin = "borrow_deref" =>
            /\ cells[b].data_ptr = newArg
            /\ cells[b].data_ptr = ReferentAddr
            /\ \A l \in Locs : cells[b].data_ptr # DataAddr(l)
            /\ cells[b].liveness_ptr = LiveAddr(self))
    /\ [][\A b \in Handles : (RefCounting /\ self \in allocated) =>
            /\ (cells[b].state = "unissued" /\ cells'[b].state = "live"
                    /\ cells'[b].origin = "borrow_deref")
                 => liveness'[self] = liveness[self] + 1
            /\ (cells[b].state = "live" /\ cells[b].origin = "borrow_deref"
                    /\ cells'[b].state # "live")
                 => liveness'[self] = liveness[self] - 1]_vars

C15_Witness ==
    /\ RefCounting /\ lender_pc = "alive" /\ liveness[self] = 1 /\ Dropped # {}
    /\ \E b \in Live : cells[b].origin = "borrow_deref" /\ ~cells[b].is_clone
    /\ \A b \in Live : cells[b].origin = "borrow_deref"
    /\ borrow_got.origin = "borrow_deref" /\ borrow_got.value = referent

\* C16: ref-count strategy, before the Lender's teardown: the count equals the
\* number of live Borrowers of the Lender (issued plus cloned minus dropped),
\* and a Borrower's drop never finds a count of 0 to decrement.
C16_CountIsLiveBorrowers ==
    /\ []((RefCounting /\ lender_pc = "alive") =>
            /\ self \in allocated
            /\ liveness[self] = Cardinality(Live))
    /\ [][(RefCounting /\ lender_pc = "alive" /\ DropStep) =>
            /\ liveness[self] >= 1
            /\ liveness'[self] = liveness[self] - 1
            /\ liveness'[self] = Cardinality(Live')]_vars

C16_Witness ==
    /\ RefCounting /\ lender_pc = "alive"
    /\ Cardinality(Live) = 2 /\ liveness[self] = 2 /\ Dropped # {}
    /\ \E b \in Live : cells[b].is_clone

\* C17: ref-count strategy: once the Lender's teardown has loaded a count of 0,
\* no Borrower of the Lender is live, and no later step brings one into
\* existence (clone needs a live Borrower, borrow and borrow_deref need the
\* Lender), so no clone runs beside or after a teardown that succeeds.
C17_ZeroSeenMeansNoBorrower ==
    /\ []((RefCounting /\ lender_pc \in {"dropping", "dropped"} /\ seen = 0) =>
            /\ Live = {}
            /\ \A b \in Handles : ~ENABLED AC_Borrow_clone(b)
            /\ ~ENABLED AC_Lend_borrow /\ ~ENABLED AC_Lend_borrow_deref)
    /\ []((RefCounting /\ lender_pc = "dropped") => seen = 0)
    /\ [][(RefCounting /\ lender_pc # "alive" /\ seen = 0) => ~IssueStep]_vars

C17_Witness ==
    /\ RefCounting /\ lender_pc = "dropping" /\ seen = 0
    /\ Cardinality(Dropped) >= 2 /\ Unissued # {}

\* C18: ref-count strategy: the count never wraps: no step that issues a
\* Borrower (borrow, borrow_deref, clone) takes the count from 2^w - 1 to 0,
\* so a teardown that loads 0 has no live Borrower.
C18_CountNeverWraps ==
    /\ [][(RefCounting /\ lender_pc = "alive" /\ IssueStep
             /\ liveness[self] = UsizeModulus - 1) => liveness'[self] # 0]_vars
    /\ []((RefCounting /\ lender_pc \in {"dropping", "dropped"} /\ seen = 0) => Live = {})

\* C19: flag strategy, verification mode: the check made by a Borrower's
\* as_ref and drop loads the alive flag only from allocated storage: no load
\* of the flag goes to storage the teardown has released.
C19_CheckReadsLiveStorage ==
    (FlagBased /\ debug_assertions) => \A l \in Locs : LiveAddr(l) \notin dangling

\* C20: both strategies: while the Lender has not been torn down, every live
\* Borrower's liveness address is the address of the Lender's liveness state
\* and its data address is the address of the Lender's payload (of the
\* referent, for a borrow_deref family), and both are allocated storage; also
\* after the Lender has been moved.
C20_AddressesFollowLender ==
    lender_pc = "alive" =>
        \A b \in Live :
            /\ cells[b].liveness_ptr = LiveAddr(self)
            /\ cells[b].data_ptr =
                  (IF cells[b].origin = "borrow_deref" THEN newArg ELSE DataAddr(self))
            /\ Valid(cells[b].liveness_ptr) /\ Valid(cells[b].data_ptr)

====
